---- MODULE Spec2Model ----
(***************************************************************************)
(* Model of the ffmpeg_converter repository:                               *)
(*   core/ffmpeg_core.py     FFmpegConverter (encoder cache, duration      *)
(*                           probe, convert)                               *)
(*   standalone_app/app.py   App.run_conversion_worker and the event queue *)
(*                                                                         *)
(* Spec     one run of the program: either a batch started by start_export *)
(*          (run_conversion_worker calling convert per file) or one direct *)
(*          call of convert (command line / tests).                        *)
(* SpecEnc  calls of get_available_encoders against the encoder cache.     *)
(***************************************************************************)
EXTENDS Integers, Sequences, FiniteSets, TLC

(* ------------------------------ bounds -------------------------------- *)
\* most files in one batch
MaxFiles == 3
\* most progress lines read from encoder stdout pipes in one run
MaxLines == 2
\* most calls of get_available_encoders in one run
MaxCalls == 4
\* files of the batch and progress lines of the run when the consumer and the
\* capability query run beside the batch worker
MaxAppFiles == 1
MaxAppLines == 1
\* most files in the queue when it is built from several folders
MaxQueueFiles == 2
\* most calls of create_gif in one run
MaxGifCalls == 2
\* chunks of text a pipe between the encoder and convert holds before a write blocks
PipeCapacity == 2
\* most writes (progress lines and chunks of diagnostic text) of one encoder run
MaxWrites == 4

(* ------------------------- program constants -------------------------- *)
\* queue.Queue() is built without maxsize: 0 means unbounded
QueueMaxSize == 0
\* out_time_ms is divided by duration_s * 1_000_000
Scale == 1000000
\* min(100, ...)
PctCap == 100

VARIABLES
    \* ---- App / run_conversion_worker
    w_pc,               \* "not_started" | "loop" | "in_convert" | "after_loop" | "done"
    w_i,                \* 1-based index of the file the for loop is at
    total_files,        \* len(files)
    shutdown,           \* options['shutdown']
    progress_queue,     \* App.progress_queue (FIFO of events)
    files,              \* the worker's copy of the queue of input files
    output_dir,         \* options['output_dir']
    files_to_convert,   \* App.files_to_convert
    \* ---- FFmpegConverter.convert (the running call)
    caller,             \* "none" | "worker" | "direct"
    progress_callback,  \* "None" | "App.progress_callback" | "recorder"
    conv_pc,            \* "idle" | "exists" | "probe" | "spawn" | "read" | "returned" | "raised"
    duration_s,         \* result of get_video_duration (NoDuration before it is set)
    progress_data,      \* dict of the fragments read so far
    proc,               \* encoder process: [state, rc, stderr]
    exc,                \* exception convert raised: [type, rc, text]
    request,            \* arguments of the running convert call (NoRequest outside one)
    command,            \* the local `command` of convert (<<>> before it is built)
    \* ---- history
    published,          \* every event ever put on progress_queue, in order
    cb_calls,           \* callback invocations of the running convert call
    probed, built, spawned,  \* requests for which the probe ran / the command was built / Popen ran
    alive,              \* requests whose encoder process was started and not yet waited for
    written,            \* output paths handed to the encoders that were started, in order
    outcomes,           \* per finished convert call: "ok" or "err"
    lines_read,         \* progress lines read in this run
    shutdown_calls,     \* per call of initiate_shutdown: was DONE published before it
    \* ---- FFmpegConverter.get_available_encoders
    _available_encoders, \* the cache: None or a list object [id, val]
    enc_runs,           \* tool invocations ('ffmpeg -encoders') so far
    enc_calls,          \* history of the calls: [force, had, before, ran, result, after]
    \* ---- App (main thread) and the capability-query thread
    is_converting,      \* App.is_converting
    ui_state,           \* state the controls were last set to: "normal" | "disabled"
    progress_bar,       \* progress_bar['value']
    status_label,       \* status_label_var (the name of the text it shows)
    hw_accel_values,    \* hw_accel_combo['values']
    available_encoders, \* App.available_encoders
    hw_pc,              \* _populate_hw_accel_worker: "not_started" | "started" | "done"
    handled,            \* every tuple process_queue took off the queue, in order
    \* ---- FFmpegConverter.create_gif (the running call) and the temp directory
    gif_pc,             \* "idle" | "exists" | "temp" | "palette" | "gif" | "finally" | "returned" | "raised"
    gif_request,        \* arguments of the call: [exists, fps, width]
    palette_path,       \* number in the name of the call's temporary file (0: none)
    gif_exc,            \* exception on its way out of the try block
    temp_files,         \* the temporary palette files on disk
    created,            \* every temporary palette file ever created
    invocations,        \* tool invocations of create_gif: [call, kind, command, failed]
    gif_calls,          \* calls of create_gif so far
    \* ---- convert and the encoder process, at the level of the two pipes
    pipe_pc,            \* convert: "idle" | "read" | "communicate" | "returned" | "raised"
    p_state,            \* the encoder process: "none" | "running" | "exited"
    p_script,           \* what the encoder has still to write, in its order
    stdout_pipe,        \* progress lines written and not yet read
    stderr_pipe,        \* chunks of diagnostic text written and not yet read
    stderr_read,        \* chunks of diagnostic text communicate() has collected
    returncode          \* process.returncode (-1: None)

batchVars == <<w_pc, w_i, total_files, shutdown, progress_queue, files, output_dir,
               files_to_convert>>
convVars  == <<caller, progress_callback, conv_pc, duration_s, progress_data, proc, exc,
               request, command>>
histVars  == <<published, cb_calls, probed, built, spawned, alive, written, outcomes, lines_read, shutdown_calls>>
encVars   == <<_available_encoders, enc_runs, enc_calls>>
appVars   == <<is_converting, ui_state, progress_bar, status_label, hw_accel_values,
               available_encoders, hw_pc, handled>>
gifVars   == <<gif_pc, gif_request, palette_path, gif_exc, temp_files, created, invocations,
               gif_calls>>
pipeVars  == <<pipe_pc, p_state, p_script, stdout_pipe, stderr_pipe, stderr_read, returncode>>
vars      == <<batchVars, convVars, histVars, encVars, appVars, gifVars, pipeVars>>


(* --------------------------- input domains ---------------------------- *)
\* a value of a progress fragment or of ffprobe's stdout: text that int()/float()
\* accepts (isInt, n) or text it rejects with ValueError (such as 'N/A')
IntVal(n) == [isInt |-> TRUE, n |-> n]
NA == [isInt |-> FALSE, n |-> 0]

\* elapsed-time values (microseconds) the encoder can report
ElapsedValues == {-4000000, 1000000, 4000000, 300000000}

\* lines of the progress channel, already split at '=' (line.strip().split('='))
ProgressLines ==
    {<<"out_time_ms", IntVal(e)>> : e \in ElapsedValues}
    \cup {<<"out_time_ms", NA>>, <<"frame", IntVal(1)>>}
    \cup {<<"junk">>}

\* what running ffprobe can give: the executable is missing, it exits non-zero,
\* or it exits 0 with some stdout
ProbeRuns ==
    {[kind |-> "notfound", out |-> NA], [kind |-> "failed", out |-> NA]}
    \cup {[kind |-> "ok", out |-> v] : v \in {NA, IntVal(-1), IntVal(0), IntVal(2)}}

\* characters of the diagnostic channel: "E" an error line, "S" a final stats
\* line (frame= fps= time= bitrate= speed=), " " and "\n" whitespace
WhiteSpace == {" ", "\n"}
StderrTexts == {<<>>, <<"\n", "E", "\n">>, <<"S">>}
ExitCodes == {0, 1}
Platforms == {"Windows", "Linux", "Other"}

(* ------------------------------ helpers ------------------------------- *)
NoExc == [type |-> "none", rc |-> 0, text |-> <<>>]
Exc(type, rc, text) == [type |-> type, rc |-> rc, text |-> text]
NoProc == [state |-> "none", rc |-> 0, stderr |-> <<>>]

\* str.strip()
RECURSIVE LStrip(_)
LStrip(s) == IF s # <<>> /\ Head(s) \in WhiteSpace THEN LStrip(Tail(s)) ELSE s
RECURSIVE RStrip(_)
RStrip(s) ==
    IF s # <<>> /\ s[Len(s)] \in WhiteSpace THEN RStrip(SubSeq(s, 1, Len(s) - 1)) ELSE s
Strip(s) == RStrip(LStrip(s))

\* int(a / b) of Python: true division, then truncation toward zero
TruncDiv(a, b) ==
    LET q == (IF a < 0 THEN -a ELSE a) \div (IF b < 0 THEN -b ELSE b)
    IN  IF (a < 0) # (b < 0) THEN -q ELSE q

Min(a, b) == IF a < b THEN a ELSE b

\* an event on progress_queue: the tuple (tag, value). A numeric tag is the
\* percentage of a status/progress tuple (tag "NUM", pct the number); msg names
\* the text, i/n the numbers the text carries, text an exception's text.
Ev(tag, pct, msg, i, n, text) ==
    [tag |-> tag, pct |-> pct, msg |-> msg, i |-> i, n |-> n, text |-> text]

\* queue.Queue.full(): never true for maxsize <= 0
full(q) == QueueMaxSize > 0 /\ Len(q) >= QueueMaxSize

(* ---------------------- FFmpegConverter._run_command ------------------ *)
\* the exception _run_command raises for the outcome of subprocess.run (NoExc
\* when it returns the result): FileNotFoundError and CalledProcessError both
\* become FFmpegError
_run_command(run) ==
    IF run.kind = "notfound" THEN Exc("FFmpegError", 0, <<"Executable not found">>)
    ELSE IF run.kind = "failed" THEN Exc("FFmpegError", 1, <<"Command failed">>)
    ELSE NoExc

(* ------------------- FFmpegConverter.get_video_duration --------------- *)
\* result of get_video_duration on the outcome r of running ffprobe:
\* float(result.stdout.strip()), FFmpegError when that does not parse
get_video_duration(r) ==
    IF _run_command(r) # NoExc
    THEN [raised |-> TRUE, value |-> 0, exc |-> _run_command(r)]
    ELSE IF ~r.out.isInt
    THEN [raised |-> TRUE, value |-> 0,
          exc |-> Exc("FFmpegError", 0, <<"Could not parse video duration">>)]
    ELSE [raised |-> FALSE, value |-> r.out.n, exc |-> NoExc]

(* ------------------------ FFmpegConverter.convert --------------------- *)
\* the request the running convert call works on
cur == IF caller = "worker" THEN w_i ELSE 1

\* progress_data[parts[0]] = parts[1] when len(parts) == 2
UpdateData(pd, parts) ==
    IF Len(parts) = 2
    THEN [k \in DOMAIN pd \cup {parts[1]} |-> IF k = parts[1] THEN parts[2] ELSE pd[k]]
    ELSE pd

\* variant of EmitsSnapshot: the duration test as "not zero"
EmitsSnapshot_nonzero(pd, d) == "out_time_ms" \in DOMAIN pd /\ d # 0

\* if 'out_time_ms' in progress_data and duration_s > 0
EmitsSnapshot(pd, d) == "out_time_ms" \in DOMAIN pd /\ d > 0

\* percentage = min(100, int(elapsed_ms / (duration_s * 1_000_000)))
Percentage(elapsed_ms, d) == Min(PctCap, TruncDiv(elapsed_ms, d * Scale))

\* progress_callback(percentage, message): App.progress_callback puts the tuple
\* on the queue; any other callback only sees it
CallbackPut(q, pct, msg) ==
    IF progress_callback = "App.progress_callback"
    THEN Append(q, Ev("NUM", pct, msg, 0, 0, <<>>))
    ELSE q

(* ------------------- FFmpegConverter._build_command ------------------- *)
\* A string is the sequence of the pieces it is put together from: 'hevc_nvenc'
\* is <<"hevc_", "nvenc">>, str(10) + 'M' is <<"10", "M">>; S(p) is the string
\* of the single piece p. None and '' are both the empty sequence (both falsy).
S(piece) == <<piece>>
None == <<>>

\* 'piece' in str
Contains(str, piece) == \E k \in 1..Len(str) : str[k] = piece

\* variant of is_hw_encode: only the nvenc family counts as hardware
is_hw_encode_nvenc_only(video_codec) == Contains(video_codec, "nvenc")

\* is_hw_encode = 'nvenc' in video_codec or 'qsv' in video_codec
\*                or 'videotoolbox' in video_codec
is_hw_encode(video_codec) ==
    \/ Contains(video_codec, "nvenc")
    \/ Contains(video_codec, "qsv")
    \/ Contains(video_codec, "videotoolbox")

\* variant of accel_method: the family name is passed on unmapped
accel_method_verbatim(hw_accel) == hw_accel

\* accel_method = 'cuda' if hw_accel == 'nvenc' else hw_accel
accel_method(hw_accel) == IF hw_accel = S("nvenc") THEN S("cuda") ELSE hw_accel

\* if hw_accel and hw_accel != 'none': -hwaccel <method>, and for cuda also
\* -hwaccel_output_format cuda
HwAccelFlags(hw_accel) ==
    IF hw_accel # None /\ hw_accel # S("none")
    THEN <<S("-hwaccel"), accel_method(hw_accel)>>
         \o (IF accel_method(hw_accel) = S("cuda")
             THEN <<S("-hwaccel_output_format"), S("cuda")>>
             ELSE <<>>)
    ELSE <<>>

\* -c:v <codec>, then -pix_fmt yuv420p for a hardware encoder, -preset medium
\* for a software encoder
VideoFlags(video_codec) ==
    <<S("-c:v"), video_codec>>
    \o (IF is_hw_encode(video_codec)
        THEN <<S("-pix_fmt"), S("yuv420p")>>
        ELSE <<S("-preset"), S("medium")>>)

\* variant of QualityFlags: the cq branch also sets a target bitrate
QualityFlags_cq_bitrate(quality_mode, quality_value) ==
    IF quality_mode = "crf" THEN <<S("-crf"), S(ToString(quality_value))>>
    ELSE IF quality_mode = "cbr"
    THEN LET bitrate == <<ToString(quality_value), "M">> IN
         <<S("-b:v"), bitrate, S("-minrate"), bitrate, S("-maxrate"), bitrate,
           S("-bufsize"), S("2M")>>
    ELSE IF quality_mode = "cq"
    THEN <<S("-rc"), S("vbr"), S("-cq"), S(ToString(quality_value)),
           S("-b:v"), <<ToString(quality_value), "M">> >>
    ELSE <<>>

\* the if / elif / elif on quality_mode; any other mode adds nothing
QualityFlags(quality_mode, quality_value) ==
    IF quality_mode = "crf" THEN <<S("-crf"), S(ToString(quality_value))>>
    ELSE IF quality_mode = "cbr"
    THEN LET bitrate == <<ToString(quality_value), "M">> IN
         <<S("-b:v"), bitrate, S("-minrate"), bitrate, S("-maxrate"), bitrate,
           S("-bufsize"), S("2M")>>
    ELSE IF quality_mode = "cq"
    THEN <<S("-rc"), S("vbr"), S("-cq"), S(ToString(quality_value))>>
    ELSE <<>>

\* variant of AudioFlags: the bitrate is set for every audio codec
AudioFlags_always_bitrate(audio_codec) ==
    <<S("-c:a"), audio_codec, S("-b:a"), S("192k")>>

\* -c:a <codec>, and -b:a 192k unless the codec is 'copy'
AudioFlags(audio_codec) ==
    <<S("-c:a"), audio_codec>>
    \o (IF audio_codec # S("copy") THEN <<S("-b:a"), S("192k")>> ELSE <<>>)

\* the argument list _build_command returns for request r
_build_command(r) ==
    <<S("ffmpeg"), S("-y")>>
    \o HwAccelFlags(r.hw_accel)
    \o <<S("-i"), r.input_path>>
    \o VideoFlags(r.video_codec)
    \o QualityFlags(r.quality_mode, r.quality_value)
    \o AudioFlags(r.audio_codec)
    \o <<S("-v"), S("quiet"), S("-stats"), S("-progress"), S("pipe:1"), r.output_path>>

(* --------------------- requests convert is given ---------------------- *)
\* video codecs: the software and hardware encoders the option widgets offer
VideoCodecs ==
    { <<"libx265">>, <<"libx264">>, <<"hevc_", "nvenc">>, <<"h264_", "qsv">>,
      <<"hevc_", "videotoolbox">> }
\* the modes _build_command has a branch for
QualityModes == {"crf", "cbr", "cq"}
\* a mode string no branch handles (convert takes any string)
OtherModes == {"vbr"}
\* the values update_ui_for_mode fills in for CBR, CRF and CQ
QualityValues == {10, 23, 24}
AudioCodecs == {S("copy"), S("aac"), S("libopus")}
HwAccels == {None, S("none"), S("nvenc"), S("qsv"), S("cuda")}
OutputPaths == {S("out.mp4"), <<"a", "_converted.mp4">>}

\* the arguments of one convert call; exists is os.path.exists(input_path)
Request(exists, out, vc, qm, qv, ac, hw) ==
    [exists |-> exists, input_path |-> S("in.mp4"), output_path |-> out,
     video_codec |-> vc, quality_mode |-> qm, quality_value |-> qv,
     audio_codec |-> ac, hw_accel |-> hw]

NoRequest == Request(FALSE, <<>>, <<>>, "", 0, <<>>, None)

\* every request over the domains above, on an existing input
Requests ==
    { Request(TRUE, out, vc, qm, qv, ac, hw) :
        out \in OutputPaths, vc \in VideoCodecs, qm \in QualityModes \cup OtherModes,
        qv \in QualityValues, ac \in AudioCodecs, hw \in HwAccels }

\* A file path is [dir, base, ext]: os.path.join(dir, base + ext), where ext is
\* the extension os.path.splitext splits off.
PathStr(filepath) == <<filepath.dir, "/", filepath.base, filepath.ext>>

\* variant of OutputPath: the extension is not split off the base name
OutputPath_keeps_ext(filepath, dir) ==
    <<dir, "/", filepath.base, filepath.ext, "_converted.mp4">>

\* base, _ = os.path.splitext(os.path.basename(filepath));
\* output_path = os.path.join(options['output_dir'], f"{base}_converted.mp4")
OutputPath(filepath, dir) == <<dir, "/", filepath.base, "_converted.mp4">>

\* what the worker passes to convert for filepath when no option was touched:
\* the initial values of the option variables
DefaultRequest(exists, filepath, dir) ==
    [Request(exists, OutputPath(filepath, dir), <<"libx265">>, "crf", 23, S("copy"), None)
        EXCEPT !.input_path = PathStr(filepath)]

\* requests of a direct call: the defaults of the command line, any mode string
DirectRequests ==
    { Request(exists, S("out.mp4"), <<"libx265">>, qm, 23, S("copy"), S("none")) :
        exists \in BOOLEAN, qm \in QualityModes \cup OtherModes }

\* variant of InputMissing: the existence test is skipped
InputMissing_never(exists) == FALSE

\* not os.path.exists(input_path)
InputMissing(exists) == ~exists

\* if not os.path.exists(input_path): raise FileNotFoundError
convert_check_input ==
    /\ conv_pc = "exists"
    /\ IF InputMissing(request.exists)
       THEN /\ conv_pc' = "raised"
            /\ exc' = Exc("FileNotFoundError", 0, <<"Input file not found">>)
       ELSE /\ conv_pc' = "probe"
            /\ exc' = exc
    /\ outcomes' = IF conv_pc' = "raised" THEN Append(outcomes, "err") ELSE outcomes
    /\ UNCHANGED <<batchVars, caller, progress_callback, duration_s, progress_data, proc>>
    /\ UNCHANGED <<request, command>>
    /\ UNCHANGED <<published, cb_calls, probed, built, spawned, alive, written, lines_read, shutdown_calls>>
    /\ UNCHANGED <<encVars, appVars, gifVars, pipeVars>>

\* duration_s = self.get_video_duration(input_path): an exception of the probe
\* is not caught here and leaves convert
convert_probe ==
    /\ conv_pc = "probe"
    /\ probed' = probed \cup {cur}
    /\ \E r \in ProbeRuns :
         LET res == get_video_duration(r) IN
         IF res.raised
         THEN /\ conv_pc' = "raised"
              /\ exc' = res.exc
              /\ duration_s' = duration_s
         ELSE /\ conv_pc' = "spawn"
              /\ exc' = exc
              /\ duration_s' = res.value
    /\ outcomes' = IF conv_pc' = "raised" THEN Append(outcomes, "err") ELSE outcomes
    /\ UNCHANGED <<batchVars, caller, progress_callback, progress_data, proc>>
    /\ UNCHANGED <<request, command>>
    /\ UNCHANGED <<published, cb_calls, built, spawned, alive, written, lines_read, shutdown_calls>>
    /\ UNCHANGED <<encVars, appVars, gifVars, pipeVars>>

\* command = self._build_command(...); process = subprocess.Popen(command, ...)
\* Popen raises FileNotFoundError when the ffmpeg executable is missing
convert_spawn ==
    /\ conv_pc = "spawn"
    /\ built' = built \cup {cur}
    /\ command' = _build_command(request)
    /\ \E started \in BOOLEAN :
         IF started
         THEN /\ conv_pc' = "read"
              /\ spawned' = spawned \cup {cur}
              /\ alive' = alive \cup {cur}
              /\ written' = Append(written, request.output_path)
              /\ proc' = [state |-> "running", rc |-> 0, stderr |-> <<>>]
              /\ exc' = exc
         ELSE /\ conv_pc' = "raised"
              /\ UNCHANGED <<spawned, alive, written>>
              /\ proc' = proc
              /\ exc' = Exc("FileNotFoundError", 0, <<"No such file: ffmpeg">>)
    /\ progress_data' = [k \in {} |-> NA]
    /\ outcomes' = IF conv_pc' = "raised" THEN Append(outcomes, "err") ELSE outcomes
    /\ UNCHANGED <<batchVars, caller, progress_callback, duration_s, request>>
    /\ UNCHANGED <<published, cb_calls, probed, lines_read, shutdown_calls>>
    /\ UNCHANGED <<encVars, appVars, gifVars, pipeVars>>

\* the key of a split progress line: parts[0] of a key=value pair, '' otherwise
LineKey(parts) == IF Len(parts) = 2 THEN parts[1] ELSE ""

\* one snapshot record of the callback log: the percentage, which step made the
\* call, whether the encoder process had been waited on by then, and the key of
\* the line whose reading led to the call ('' for the final call)
Snap(pct, kind, p, key) ==
    [pct |-> pct, kind |-> kind, exited |-> p.state = "exited", key |-> key]

\* for line in process.stdout: one line is read, folded into progress_data and,
\* once out_time_ms is known and the duration positive, reported
ReadLine(max_lines, lines) ==
    /\ conv_pc = "read"
    /\ lines_read < max_lines
    /\ lines_read' = lines_read + 1
    /\ \E parts \in lines :
         LET pd == UpdateData(progress_data, parts) IN
         /\ progress_data' = pd
         /\ IF ~EmitsSnapshot(pd, duration_s)
            THEN UNCHANGED <<conv_pc, exc, cb_calls, progress_queue, published>>
            ELSE IF ~pd["out_time_ms"].isInt
            THEN \* int(progress_data['out_time_ms']) raises ValueError
                 /\ conv_pc' = "raised"
                 /\ exc' = Exc("ValueError", 0, <<"invalid literal for int()">>)
                 /\ UNCHANGED <<cb_calls, progress_queue, published>>
            ELSE LET percentage == Percentage(pd["out_time_ms"].n, duration_s) IN
                 /\ cb_calls' = IF progress_callback # "None"
                                THEN Append(cb_calls, Snap(percentage, "progress", proc, LineKey(parts)))
                                ELSE cb_calls
                 /\ progress_queue' = CallbackPut(progress_queue, percentage, "progress")
                 /\ published' = CallbackPut(published, percentage, "progress")
                 /\ UNCHANGED <<conv_pc, exc>>
    /\ outcomes' = IF conv_pc' = "raised" THEN Append(outcomes, "err") ELSE outcomes
    /\ UNCHANGED <<w_pc, w_i, total_files, shutdown, files, output_dir, files_to_convert>>
    /\ UNCHANGED <<caller, progress_callback, duration_s, proc, request, command>>
    /\ UNCHANGED <<probed, built, spawned, alive, written, shutdown_calls>>
    /\ UNCHANGED <<encVars, appVars, gifVars, pipeVars>>

convert_read_line == ReadLine(MaxLines, ProgressLines)

\* variant of ExitFailed: only a negative status (killed by a signal) fails
ExitFailed_negative(rc) == rc < 0

\* if process.returncode != 0
ExitFailed(rc) == rc # 0

\* final_stats: the stats line of stderr when stats_regex finds one
FinalMessage(stderr_output) ==
    IF \E k \in 1..Len(stderr_output) : stderr_output[k] = "S"
    THEN "done_final_stats"
    ELSE "complete"

\* variant of communicate: convert goes on without waiting for the exit
communicate_no_wait(running, c) == running

\* process.communicate(): the processes still running once it has returned
communicate(running, c) == running \ {c}

\* the for loop ends at end-of-stream; process.communicate() waits for the exit
\* and drains stderr; then the exit status decides: raise FFmpegError with the
\* stripped stderr, or report 100 and return True
convert_finish ==
    /\ conv_pc = "read"
    /\ \E rc \in ExitCodes, stderr_output \in StderrTexts :
         LET p == [state |-> "exited", rc |-> rc, stderr |-> stderr_output] IN
         /\ proc' = p
         /\ IF ExitFailed(rc)
            THEN /\ conv_pc' = "raised"
                 /\ exc' = Exc("FFmpegError", rc, Strip(stderr_output))
                 /\ UNCHANGED <<cb_calls, progress_queue, published>>
            ELSE /\ conv_pc' = "returned"
                 /\ exc' = exc
                 /\ cb_calls' = IF progress_callback # "None"
                                THEN Append(cb_calls, Snap(PctCap, "final", p, ""))
                                ELSE cb_calls
                 /\ progress_queue' = IF progress_callback # "None"
                                      THEN CallbackPut(progress_queue, PctCap,
                                                       FinalMessage(stderr_output))
                                      ELSE progress_queue
                 /\ published' = IF progress_callback # "None"
                                 THEN CallbackPut(published, PctCap,
                                                  FinalMessage(stderr_output))
                                 ELSE published
    /\ outcomes' = Append(outcomes, IF conv_pc' = "raised" THEN "err" ELSE "ok")
    /\ alive' = communicate(alive, cur)
    /\ UNCHANGED <<w_pc, w_i, total_files, shutdown, files, output_dir, files_to_convert>>
    /\ UNCHANGED <<caller, progress_callback, duration_s, progress_data, request, command>>
    /\ UNCHANGED <<probed, built, spawned, written, lines_read, shutdown_calls>>
    /\ UNCHANGED <<encVars, appVars, gifVars, pipeVars>>

\* convert called directly (command line, tests), with or without a callback
call_convert ==
    /\ caller = "none"
    /\ w_pc = "not_started"
    /\ files_to_convert = <<>>
    /\ caller' = "direct"
    /\ \E cb \in {"None", "recorder"} : progress_callback' = cb
    /\ \E r \in DirectRequests : request' = r
    /\ conv_pc' = "exists"
    /\ UNCHANGED <<batchVars, duration_s, progress_data, proc, exc, command>>
    /\ UNCHANGED histVars
    /\ UNCHANGED <<encVars, appVars, gifVars, pipeVars>>

(* ---------------------- App.run_conversion_worker --------------------- *)
(* ------------------ QueueFrame.add_files / add_folder ----------------- *)
\* for fp in filepaths: if fp not in files_to_convert: files_to_convert.append(fp)
RECURSIVE AppendNew(_, _)
AppendNew(queue, filepaths) ==
    IF filepaths = <<>> THEN queue
    ELSE AppendNew(IF \E k \in 1..Len(queue) : queue[k] = Head(filepaths)
                   THEN queue
                   ELSE Append(queue, Head(filepaths)),
                   Tail(filepaths))

\* update_status_from_queue: the count text, unless a batch is being converted
QueueStatus(label) == IF ~is_converting THEN "file(s) in queue." ELSE label

\* add_files: the paths picked in the file dialog (one of selections) are
\* appended unless already queued; the queue is edited before the batch of the
\* run is started and holds at most max_files files
AddFiles(max_files, selections) ==
    /\ w_pc = "not_started"
    /\ caller = "none"
    /\ ui_state = "normal"
    /\ \E filepaths \in selections :
         /\ Len(AppendNew(files_to_convert, filepaths)) <= max_files
         /\ files_to_convert' = AppendNew(files_to_convert, filepaths)
    /\ status_label' = QueueStatus(status_label)
    /\ UNCHANGED <<w_pc, w_i, total_files, shutdown, progress_queue, files, output_dir>>
    /\ UNCHANGED <<convVars, histVars, encVars, gifVars, pipeVars>>
    /\ UNCHANGED <<is_converting, ui_state, progress_bar, hw_accel_values,
                   available_encoders, hw_pc, handled>>

\* the k-th file of the selections below
VideoFile(k) == [dir |-> "videos", base |-> ToString(k), ext |-> ".mp4"]

\* selections of the first n files of one folder, all of different names
FirstFiles(max_files) == { [k \in 1..n |-> VideoFile(k)] : n \in 1..max_files }

add_files == AddFiles(MaxFiles, FirstFiles(MaxFiles))

\* the extensions add_folder takes, compared in lower case
VideoExts == {".mp4", ".mov", ".avi", ".mkv", ".wmv"}
Lower(ext) == IF ext = ".MKV" THEN ".mkv" ELSE ext

\* for f in os.listdir(folderpath): the video files of the listing, joined to
\* the folder
RECURSIVE FolderVideos(_, _)
FolderVideos(folderpath, listing) ==
    IF listing = <<>> THEN <<>>
    ELSE (IF Lower(Head(listing).ext) \in VideoExts
          THEN <<[dir |-> folderpath, base |-> Head(listing).base,
                  ext |-> Head(listing).ext]>>
          ELSE <<>>)
         \o FolderVideos(folderpath, Tail(listing))

\* add_folder: the folder picked in the dialog is listed (listings maps a
\* folder to the orders os.listdir may give) and its video files are appended
\* unless already queued; an empty folderpath (dialog cancelled) adds nothing
AddFolder(max_files, folders, listings) ==
    /\ w_pc = "not_started"
    /\ caller = "none"
    /\ ui_state = "normal"
    /\ \E folderpath \in folders \cup {""} :
         IF folderpath # ""
         THEN \E listing \in listings[folderpath] :
                LET queue == AppendNew(files_to_convert, FolderVideos(folderpath, listing))
                IN  /\ Len(queue) <= max_files
                    /\ files_to_convert' = queue
         ELSE files_to_convert' = files_to_convert
    /\ status_label' = QueueStatus(status_label)
    /\ UNCHANGED <<w_pc, w_i, total_files, shutdown, progress_queue, files, output_dir>>
    /\ UNCHANGED <<convVars, histVars, encVars, gifVars, pipeVars>>
    /\ UNCHANGED <<is_converting, ui_state, progress_bar, hw_accel_values,
                   available_encoders, hw_pc, handled>>

\* os.path.expanduser("~"), the initial output directory
HomeDir == "~"

(* ------------------------- App.start_export --------------------------- *)
\* start_export: a non-empty queue of files is copied and handed, with the
\* options (output directory one of dirs), to a new thread running
\* run_conversion_worker
StartExport(dirs) ==
    /\ w_pc = "not_started"
    /\ caller = "none"
    /\ files_to_convert # <<>>
    /\ files' = files_to_convert
    /\ total_files' = Len(files_to_convert)
    /\ \E dir \in dirs : output_dir' = dir
    /\ \E sd \in BOOLEAN : shutdown' = sd
    /\ w_pc' = "loop"
    /\ w_i' = 1
    /\ caller' = "worker"
    /\ progress_callback' = "App.progress_callback"
    /\ UNCHANGED <<progress_queue, files_to_convert>>
    /\ UNCHANGED <<conv_pc, duration_s, progress_data, proc, exc>>
    /\ is_converting' = TRUE
    /\ ui_state' = "disabled"
    /\ progress_bar' = 0
    /\ UNCHANGED <<request, command>>
    /\ UNCHANGED histVars
    /\ UNCHANGED <<encVars, gifVars, pipeVars>>
    /\ UNCHANGED <<status_label, hw_accel_values, available_encoders, hw_pc, handled>>

start_export == StartExport({HomeDir})

\* the (-1, "(i/N) Converting base...") tuple put before convert is called
StatusEvent(i, n) == Ev("NUM", -1, "converting", i, n, <<>>)

\* one iteration of the for loop up to the call of convert
rcw_iteration ==
    /\ w_pc = "loop"
    /\ progress_queue' = Append(progress_queue, StatusEvent(w_i, total_files))
    /\ published' = Append(published, StatusEvent(w_i, total_files))
    /\ w_pc' = "in_convert"
    /\ conv_pc' = "exists"
    /\ \E exists \in BOOLEAN :
          request' = DefaultRequest(exists, files[w_i], output_dir)
    /\ UNCHANGED <<w_i, total_files, shutdown, files, output_dir, files_to_convert, command>>
    /\ UNCHANGED <<caller, progress_callback, duration_s, progress_data, proc, exc, cb_calls>>
    /\ UNCHANGED <<probed, built, spawned, alive, written, outcomes, lines_read, shutdown_calls>>
    /\ UNCHANGED <<encVars, appVars, gifVars, pipeVars>>

\* the frame of a convert call that has returned or raised no longer exists:
\* its locals, the process object and the record of its callbacks are dropped
ConvertLocalsGone ==
    /\ duration_s' = 0
    /\ progress_data' = [k \in {} |-> NA]
    /\ proc' = NoProc
    /\ exc' = NoExc
    /\ cb_calls' = <<>>
    /\ request' = NoRequest
    /\ command' = <<>>

\* convert returned: the for loop takes the next file, or ends
rcw_return ==
    /\ w_pc = "in_convert"
    /\ conv_pc = "returned"
    /\ conv_pc' = "idle"
    /\ IF w_i < total_files
       THEN w_pc' = "loop" /\ w_i' = w_i + 1
       ELSE w_pc' = "after_loop" /\ w_i' = w_i
    /\ ConvertLocalsGone
    /\ UNCHANGED <<total_files, shutdown, files, output_dir, files_to_convert, progress_queue>>
    /\ UNCHANGED <<caller, progress_callback>>
    /\ UNCHANGED <<published, probed, built, spawned, alive, written, outcomes, lines_read, shutdown_calls>>
    /\ UNCHANGED <<encVars, appVars, gifVars, pipeVars>>

\* the ERROR tuple of the two except clauses
ErrorEvent(e, i) ==
    IF e.type \in {"FFmpegError", "FileNotFoundError"}
    THEN Ev("ERROR", 0, "ERROR on", i, e.rc, e.text)
    ELSE Ev("ERROR", 0, "An unexpected error occurred", 0, e.rc, e.text)

\* variant of AfterExcept: the except clause without its break
AfterExcept_no_break(i, n) ==
    IF i < n THEN [pc |-> "loop", i |-> i + 1] ELSE [pc |-> "after_loop", i |-> i]

\* where the worker goes after an except clause: break leaves the for loop
AfterExcept(i, n) == [pc |-> "after_loop", i |-> i]

\* convert raised: the except clause puts ERROR and breaks
rcw_except ==
    /\ w_pc = "in_convert"
    /\ conv_pc = "raised"
    /\ conv_pc' = "idle"
    /\ progress_queue' = Append(progress_queue, ErrorEvent(exc, w_i))
    /\ published' = Append(published, ErrorEvent(exc, w_i))
    /\ w_pc' = AfterExcept(w_i, total_files).pc
    /\ w_i' = AfterExcept(w_i, total_files).i
    /\ ConvertLocalsGone
    /\ UNCHANGED <<total_files, shutdown, files, output_dir, files_to_convert>>
    /\ UNCHANGED <<caller, progress_callback>>
    /\ UNCHANGED <<probed, built, spawned, alive, written, outcomes, lines_read, shutdown_calls>>
    /\ UNCHANGED <<encVars, appVars, gifVars, pipeVars>>

DoneEvent == Ev("DONE", 0, "All tasks complete!", 0, 0, <<>>)
ShutdownNotice == Ev("NUM", -1, "All tasks complete! Shutting down", 0, 0, <<>>)
UnsupportedEvent == Ev("ERROR", 0, "Shutdown is not supported on this OS.", 0, 0, <<>>)

\* initiate_shutdown on platform `system`: os.system(...) on a known platform,
\* an ERROR tuple otherwise
initiate_shutdown(q, system) ==
    IF system \in {"Windows", "Darwin", "Linux"} THEN q ELSE Append(q, UnsupportedEvent)

HasDone(log) == \E k \in 1..Len(log) : log[k].tag = "DONE"

\* after the for loop (left normally or by break): with the shutdown option
\* the notice is put and initiate_shutdown is called, otherwise DONE is put
rcw_finish ==
    /\ w_pc = "after_loop"
    /\ w_pc' = "done"
    /\ IF ~full(progress_queue) /\ shutdown
       THEN \E system \in Platforms :
              /\ progress_queue' =
                   initiate_shutdown(Append(progress_queue, ShutdownNotice), system)
              /\ published' =
                   initiate_shutdown(Append(published, ShutdownNotice), system)
              /\ shutdown_calls' = Append(shutdown_calls, HasDone(published))
       ELSE IF ~full(progress_queue)
       THEN /\ progress_queue' = Append(progress_queue, DoneEvent)
            /\ published' = Append(published, DoneEvent)
            /\ shutdown_calls' = shutdown_calls
       ELSE UNCHANGED <<progress_queue, published, shutdown_calls>>
    /\ UNCHANGED <<w_i, total_files, shutdown, files, output_dir, files_to_convert>>
    /\ UNCHANGED convVars
    /\ UNCHANGED <<cb_calls, probed, built, spawned, alive, written, outcomes, lines_read>>
    /\ UNCHANGED <<encVars, appVars, gifVars, pipeVars>>

(* ---------------- FFmpegConverter.get_available_encoders -------------- *)
\* A line of 'ffmpeg -encoders' is the sequence of its whitespace-separated
\* tokens, a token the sequence of its characters.
LineHeader   == << <<"E", ":">> >>
LineLegendV  == << <<"V", ".">>, <<"=">>, <<"V", "i", "d">> >>
LineLegendA  == << <<"A", ".">>, <<"=">>, <<"A", "u", "d">> >>
LineX264     == << <<"V", ".">>, <<"x", "2", "6", "4">>, <<"H", "2", "6", "4">> >>
LineNvenc    == << <<"V", ".", "S">>, <<"n", "v", "e", "n", "c">> >>
LineAac      == << <<"A", ".">>, <<"a", "a", "c">> >>

\* stdout texts of the listing
Listings ==
    { <<>>,
      <<LineX264>>,
      <<LineHeader, LineLegendV, LineLegendA, LineX264, LineNvenc, LineAac>> }

\* what running 'ffmpeg -encoders' through _run_command can give
EncoderRuns ==
    {[kind |-> "notfound", stdout |-> <<>>], [kind |-> "failed", stdout |-> <<>>]}
    \cup {[kind |-> "ok", stdout |-> l] : l \in Listings}

\* re.search(r'^\s*V\S*\s*(\S+)', line): the first token starts with V; group 1
\* is the second token, or by backtracking the last character of a lone first token
LineMatches(line) ==
    /\ Len(line) >= 1
    /\ Len(line[1]) >= 1
    /\ line[1][1] = "V"
    /\ (Len(line) >= 2 \/ Len(line[1]) >= 2)

LineGroup1(line) ==
    IF Len(line) >= 2 THEN line[2] ELSE <<line[1][Len(line[1])]>>

\* the for loop over result.stdout.splitlines()
RECURSIVE ParseEncoders(_)
ParseEncoders(lines) ==
    IF lines = <<>> THEN <<>>
    ELSE IF LineMatches(Head(lines))
         THEN <<LineGroup1(Head(lines))>> \o ParseEncoders(Tail(lines))
         ELSE ParseEncoders(Tail(lines))

\* the cache: None, or a list object (id tells list objects apart)
NoneCache == [none |-> TRUE, id |-> 0, val |-> <<>>]
ListObject(id, val) == [none |-> FALSE, id |-> id, val |-> val]

\* variant of ReturnsCached: force_rescan is not looked at
ReturnsCached_ignores_force(cache, force_rescan) == ~cache.none

\* if self._available_encoders is not None and not force_rescan: return it
ReturnsCached(cache, force_rescan) == ~cache.none /\ ~force_rescan

\* variant of CacheAfterFailure: the cache is reset before the tool is run
CacheAfterFailure_reset(cache) == [none |-> TRUE, id |-> 0, val |-> <<>>]

\* the cache after _run_command raised: line 69 is not reached
CacheAfterFailure(cache) == cache

\* one entry of the call history
EncCall(force_rescan, ran, e, stdout, before, after, result) ==
    [force |-> force_rescan, ran |-> ran, exc |-> e, stdout |-> stdout,
     before |-> before, after |-> after, result |-> result]

\* one call of get_available_encoders, as a relation on the converter's state
EncodersCall(force_rescan) ==
    /\ Len(enc_calls) < MaxCalls
    /\ IF ReturnsCached(_available_encoders, force_rescan)
       THEN /\ enc_calls' = Append(enc_calls,
                   EncCall(force_rescan, FALSE, NoExc, <<>>, _available_encoders,
                           _available_encoders, _available_encoders))
            /\ UNCHANGED <<_available_encoders, enc_runs>>
       ELSE /\ enc_runs' = enc_runs + 1
            /\ \E run \in EncoderRuns :
                 IF _run_command(run) # NoExc
                 THEN /\ _available_encoders' = CacheAfterFailure(_available_encoders)
                      /\ enc_calls' = Append(enc_calls,
                           EncCall(force_rescan, TRUE, _run_command(run), <<>>,
                                   _available_encoders, _available_encoders',
                                   NoneCache))
                 ELSE LET encoders == ListObject(enc_runs', ParseEncoders(run.stdout)) IN
                      /\ _available_encoders' = encoders
                      /\ enc_calls' = Append(enc_calls,
                           EncCall(force_rescan, TRUE, NoExc, run.stdout,
                                   _available_encoders, encoders, encoders))

\* a call from outside the application
get_available_encoders(force_rescan) ==
    /\ EncodersCall(force_rescan)
    /\ UNCHANGED <<batchVars, convVars, histVars, appVars, gifVars, pipeVars>>

(* ------------------- App: capability query and consumer --------------- *)
\* 'word' in e, for strings given as sequences of characters
SubStr(e, word) ==
    \E k \in 0..(Len(e) - Len(word)) : SubSeq(e, k + 1, k + Len(word)) = word
AnyHas(encoders, word) == \E k \in 1..Len(encoders) : SubStr(encoders[k], word)

\* hw_options: "None", then one entry per hardware family found in the listing
hw_options(encoders) ==
    <<"None">>
    \o (IF AnyHas(encoders, <<"n", "v", "e", "n", "c">>) THEN <<"NVIDIA (nvenc)">> ELSE <<>>)
    \o (IF AnyHas(encoders, <<"q", "s", "v">>) THEN <<"Intel (qsv)">> ELSE <<>>)
    \o (IF AnyHas(encoders, <<"v", "i", "d", "e", "o", "t", "o", "o", "l", "b", "o", "x">>)
        THEN <<"Apple (videotoolbox)">> ELSE <<>>)

HwAccelEvent(options) == Ev("HW_ACCEL", 0, "", 0, 0, options)
NoFfmpegEvent(e) == Ev("ERROR", 0, "Could not find ffmpeg", 0, e.rc, e.text)

\* populate_hw_accel: sets the status text and starts the query thread
populate_hw_accel ==
    /\ hw_pc = "not_started"
    /\ hw_pc' = "started"
    /\ status_label' = "Checking for available hardware encoders..."
    /\ UNCHANGED <<batchVars, convVars, histVars, encVars, gifVars, pipeVars>>
    /\ UNCHANGED <<is_converting, ui_state, progress_bar, hw_accel_values,
                   available_encoders, handled>>

\* _populate_hw_accel_worker: asks the converter for its encoders and puts
\* HW_ACCEL with the options, or ERROR when the query raised
_populate_hw_accel_worker ==
    /\ hw_pc = "started"
    /\ hw_pc' = "done"
    /\ EncodersCall(FALSE)
    /\ LET call == enc_calls'[Len(enc_calls')] IN
       IF call.exc # NoExc
       THEN /\ available_encoders' = available_encoders
            /\ progress_queue' = Append(progress_queue, NoFfmpegEvent(call.exc))
            /\ published' = Append(published, NoFfmpegEvent(call.exc))
       ELSE /\ available_encoders' = call.result.val
            /\ progress_queue' = Append(progress_queue,
                                        HwAccelEvent(hw_options(call.result.val)))
            /\ published' = Append(published, HwAccelEvent(hw_options(call.result.val)))
    /\ UNCHANGED <<w_pc, w_i, total_files, shutdown, files, output_dir, files_to_convert>>
    /\ UNCHANGED <<convVars, gifVars, pipeVars>>
    /\ UNCHANGED <<cb_calls, probed, built, spawned, alive, written, outcomes, lines_read, shutdown_calls>>
    /\ UNCHANGED <<is_converting, ui_state, progress_bar, status_label, hw_accel_values,
                   handled>>

\* variant of get_nowait: the newest tuple is taken first
get_nowait_lifo(q) == [content |-> q[Len(q)], rest |-> SubSeq(q, 1, Len(q) - 1)]

\* queue.Queue.get_nowait on a non-empty queue: the oldest tuple
get_nowait(q) == [content |-> Head(q), rest |-> Tail(q)]

\* process_queue with a tuple waiting: it is taken off and dispatched on its
\* tag (with an empty queue the call changes nothing)
process_queue ==
    /\ progress_queue # <<>>
    /\ LET content == get_nowait(progress_queue).content IN
       /\ progress_queue' = get_nowait(progress_queue).rest
       /\ handled' = Append(handled, content)
       /\ IF content.tag = "DONE"
          THEN /\ is_converting' = FALSE
               /\ ui_state' = "normal"
               /\ status_label' = "All conversions finished!"
               /\ UNCHANGED <<progress_bar, hw_accel_values>>
          ELSE IF content.tag = "ERROR"
          THEN /\ is_converting' = FALSE
               /\ ui_state' = "normal"
               /\ status_label' = "An error occurred"
               /\ UNCHANGED <<progress_bar, hw_accel_values>>
          ELSE IF content.tag = "HW_ACCEL"
          THEN /\ hw_accel_values' = content.text
               /\ status_label' = "Ready. Add files to the queue to begin."
               /\ UNCHANGED <<is_converting, ui_state, progress_bar>>
          ELSE /\ progress_bar' = IF content.pct > -1 THEN content.pct ELSE progress_bar
               /\ status_label' = content.msg
               /\ UNCHANGED <<is_converting, ui_state, hw_accel_values>>
    /\ UNCHANGED <<w_pc, w_i, total_files, shutdown, files, output_dir, files_to_convert>>
    /\ UNCHANGED <<convVars, histVars, encVars, gifVars, pipeVars>>
    /\ UNCHANGED <<available_encoders, hw_pc>>

(* --------------------- FFmpegConverter.create_gif --------------------- *)
\* the fps and width arguments tried: the defaults and one other value of each
GifFps == {10, 15}
GifWidths == {320, 480}
GifRequests ==
    { [exists |-> e, fps |-> f, width |-> w] : e \in BOOLEAN, f \in GifFps, w \in GifWidths }
NoGifRequest == [exists |-> FALSE, fps |-> 0, width |-> 0]

\* what running ffmpeg through _run_command can give
GifRuns == {[kind |-> "ok"], [kind |-> "notfound"], [kind |-> "failed"]}

\* temp_palette.name for the file numbered id
PalettePath(id) == <<"tmp", ToString(id), ".png">>

\* palette_command
palette_command(r, id) ==
    <<S("ffmpeg"), S("-y"), S("-ss"), S("start_time"), S("-t"), S("duration"),
      S("-i"), S("in.mp4"), S("-vf"),
      <<"fps=", ToString(r.fps), ",scale=", ToString(r.width),
        ":-1:flags=lanczos,palettegen">>,
      PalettePath(id)>>

\* gif_command
gif_command(r, id) ==
    <<S("ffmpeg"), S("-y"), S("-ss"), S("start_time"), S("-t"), S("duration"),
      S("-i"), S("in.mp4"), S("-i"), PalettePath(id), S("-filter_complex"),
      <<"fps=", ToString(r.fps), ",scale=", ToString(r.width),
        ":-1:flags=lanczos[x];[x][1:v]paletteuse">>,
      S("out.gif")>>

Invocation(call, kind, command_, failed) ==
    [call |-> call, kind |-> kind, command |-> command_, failed |-> failed]

\* create_gif is called (command line 'gif', or a program using the class)
call_create_gif ==
    /\ gif_pc \in {"idle", "returned", "raised"}
    /\ gif_calls < MaxGifCalls
    /\ gif_calls' = gif_calls + 1
    /\ \E r \in GifRequests : gif_request' = r
    /\ gif_pc' = "exists"
    /\ palette_path' = 0
    /\ gif_exc' = NoExc
    /\ UNCHANGED <<temp_files, created, invocations>>
    /\ UNCHANGED <<batchVars, convVars, histVars, encVars, appVars, pipeVars>>

\* if not os.path.exists(input_path): raise FileNotFoundError
gif_check_input ==
    /\ gif_pc = "exists"
    /\ IF InputMissing(gif_request.exists)
       THEN /\ gif_pc' = "raised"
            /\ gif_exc' = Exc("FileNotFoundError", 0, <<"Input file not found">>)
       ELSE /\ gif_pc' = "temp"
            /\ gif_exc' = gif_exc
    /\ UNCHANGED <<gif_request, palette_path, temp_files, created, invocations, gif_calls>>
    /\ UNCHANGED <<batchVars, convVars, histVars, encVars, appVars, pipeVars>>

\* with tempfile.NamedTemporaryFile(suffix='.png', delete=False): a new, empty
\* file of a name not used before is created and closed
gif_make_temp ==
    /\ gif_pc = "temp"
    /\ palette_path' = gif_calls
    /\ temp_files' = temp_files \cup {gif_calls}
    /\ created' = created \cup {gif_calls}
    /\ gif_pc' = "palette"
    /\ UNCHANGED <<gif_request, gif_exc, invocations, gif_calls>>
    /\ UNCHANGED <<batchVars, convVars, histVars, encVars, appVars, pipeVars>>

\* variant of AfterPalette: the second command is run whatever the first did
AfterPalette_always_gif(e) == "gif"

\* an exception of the palette command leaves the try block at once
AfterPalette(e) == IF e # NoExc THEN "finally" ELSE "gif"

\* step 1: self._run_command(palette_command, capture_output=True)
gif_palette ==
    /\ gif_pc = "palette"
    /\ \E run \in GifRuns :
         /\ invocations' = Append(invocations,
                Invocation(gif_calls, "palette", palette_command(gif_request, palette_path),
                           _run_command(run) # NoExc))
         /\ gif_exc' = _run_command(run)
         /\ gif_pc' = AfterPalette(_run_command(run))
    /\ UNCHANGED <<gif_request, palette_path, temp_files, created, gif_calls>>
    /\ UNCHANGED <<batchVars, convVars, histVars, encVars, appVars, pipeVars>>

\* step 2: self._run_command(gif_command, capture_output=True)
gif_invocation ==
    /\ gif_pc = "gif"
    /\ \E run \in GifRuns :
         /\ invocations' = Append(invocations,
                Invocation(gif_calls, "gif", gif_command(gif_request, palette_path),
                           _run_command(run) # NoExc))
         /\ gif_exc' = _run_command(run)
    /\ gif_pc' = "finally"
    /\ UNCHANGED <<gif_request, palette_path, temp_files, created, gif_calls>>
    /\ UNCHANGED <<batchVars, convVars, histVars, encVars, appVars, pipeVars>>

\* variant of RemovePalette: the file is removed only when nothing was raised
RemovePalette_on_success(temp, path, e) == IF e = NoExc THEN temp \ {path} ELSE temp

\* finally: if os.path.exists(palette_path): os.remove(palette_path); the block
\* runs whatever exception e is on its way out, and does not look at it
RemovePalette(temp, path, e) == IF path \in temp THEN temp \ {path} ELSE temp

\* the finally block, then return True or the exception goes on
gif_finally ==
    /\ gif_pc = "finally"
    /\ temp_files' = RemovePalette(temp_files, palette_path, gif_exc)
    /\ gif_pc' = IF gif_exc # NoExc THEN "raised" ELSE "returned"
    /\ UNCHANGED <<gif_request, palette_path, gif_exc, created, invocations, gif_calls>>
    /\ UNCHANGED <<batchVars, convVars, histVars, encVars, appVars, pipeVars>>

(* ------------- convert and the encoder over bounded pipes ------------- *)
\* what the encoder writes: a progress line convert can take ("ok"), a progress
\* line whose out_time_ms is not an integer ("bad"), both to stdout
\* ('-progress pipe:1'), or a chunk of statistics text to stderr ('-stats')
Writes == {"ok", "bad", "diag"}

RECURSIVE Scripts(_)
Scripts(n) ==
    IF n = 0 THEN {<<>>}
    ELSE Scripts(n - 1) \cup
         {Append(sc, w) : sc \in {x \in Scripts(n - 1) : Len(x) = n - 1}, w \in Writes}

\* subprocess.Popen(command, stdout=PIPE, stderr=PIPE, ...): the encoder starts
\* with both channels connected to pipes
pipe_popen ==
    /\ pipe_pc = "idle"
    /\ p_state = "none"
    /\ \E sc \in Scripts(MaxWrites) : p_script' = sc
    /\ p_state' = "running"
    /\ pipe_pc' = "read"
    /\ UNCHANGED <<stdout_pipe, stderr_pipe, stderr_read, returncode>>
    /\ UNCHANGED <<batchVars, convVars, histVars, encVars, appVars, gifVars>>

\* the encoder writes its next progress line; the write blocks while the pipe is full
encoder_write_progress ==
    /\ p_state = "running"
    /\ p_script # <<>>
    /\ Head(p_script) \in {"ok", "bad"}
    /\ Len(stdout_pipe) < PipeCapacity
    /\ stdout_pipe' = Append(stdout_pipe, Head(p_script))
    /\ p_script' = Tail(p_script)
    /\ UNCHANGED <<pipe_pc, p_state, stderr_pipe, stderr_read, returncode>>
    /\ UNCHANGED <<batchVars, convVars, histVars, encVars, appVars, gifVars>>

\* the encoder writes its next chunk of statistics; the write blocks while the pipe is full
encoder_write_diag ==
    /\ p_state = "running"
    /\ p_script # <<>>
    /\ Head(p_script) = "diag"
    /\ stderr_pipe < PipeCapacity
    /\ stderr_pipe' = stderr_pipe + 1
    /\ p_script' = Tail(p_script)
    /\ UNCHANGED <<pipe_pc, p_state, stdout_pipe, stderr_read, returncode>>
    /\ UNCHANGED <<batchVars, convVars, histVars, encVars, appVars, gifVars>>

\* the encoder has written everything and exits: both channels are closed
encoder_exit ==
    /\ p_state = "running"
    /\ p_script = <<>>
    /\ p_state' = "exited"
    /\ UNCHANGED <<pipe_pc, p_script, stdout_pipe, stderr_pipe, stderr_read, returncode>>
    /\ UNCHANGED <<batchVars, convVars, histVars, encVars, appVars, gifVars>>

\* one turn of 'for line in process.stdout' on a line that is there: a line
\* whose out_time_ms is not an integer raises ValueError out of convert
pipe_read_line ==
    /\ pipe_pc = "read"
    /\ stdout_pipe # <<>>
    /\ stdout_pipe' = Tail(stdout_pipe)
    /\ pipe_pc' = IF Head(stdout_pipe) = "bad" THEN "raised" ELSE "read"
    /\ UNCHANGED <<p_state, p_script, stderr_pipe, stderr_read, returncode>>
    /\ UNCHANGED <<batchVars, convVars, histVars, encVars, appVars, gifVars>>

\* the loop ends at end-of-stream: nothing left and the writing end closed;
\* until then the read of an empty pipe waits
pipe_read_eof ==
    /\ pipe_pc = "read"
    /\ stdout_pipe = <<>>
    /\ p_state = "exited"
    /\ pipe_pc' = "communicate"
    /\ UNCHANGED <<p_state, p_script, stdout_pipe, stderr_pipe, stderr_read, returncode>>
    /\ UNCHANGED <<batchVars, convVars, histVars, encVars, appVars, gifVars>>

\* process.communicate(): reads stderr to its end ...
pipe_communicate_read ==
    /\ pipe_pc = "communicate"
    /\ stderr_pipe > 0
    /\ stderr_pipe' = stderr_pipe - 1
    /\ stderr_read' = stderr_read + 1
    /\ UNCHANGED <<pipe_pc, p_state, p_script, stdout_pipe, returncode>>
    /\ UNCHANGED <<batchVars, convVars, histVars, encVars, appVars, gifVars>>

\* ... and waits for the exit; then the return code decides the outcome
pipe_communicate_wait ==
    /\ pipe_pc = "communicate"
    /\ stderr_pipe = 0
    /\ p_state = "exited"
    /\ \E rc \in ExitCodes :
         /\ returncode' = rc
         /\ pipe_pc' = IF ExitFailed(rc) THEN "raised" ELSE "returned"
    /\ UNCHANGED <<p_state, p_script, stdout_pipe, stderr_pipe, stderr_read>>
    /\ UNCHANGED <<batchVars, convVars, histVars, encVars, appVars, gifVars>>

(* ------------------------------ Spec ---------------------------------- *)
InitOther ==
    /\ w_pc = "not_started"
    /\ w_i = 0
    /\ total_files = 0
    /\ shutdown = FALSE
    /\ progress_queue = <<>>
    /\ files = <<>>
    /\ output_dir = HomeDir
    /\ files_to_convert = <<>>
    /\ caller = "none"
    /\ progress_callback = "None"
    /\ conv_pc = "idle"
    /\ duration_s = 0
    /\ progress_data = [k \in {} |-> NA]
    /\ proc = NoProc
    /\ exc = NoExc
    /\ published = <<>>
    /\ cb_calls = <<>>
    /\ probed = {}
    /\ built = {}
    /\ spawned = {}
    /\ alive = {}
    /\ written = <<>>
    /\ outcomes = <<>>
    /\ lines_read = 0
    /\ shutdown_calls = <<>>
    /\ _available_encoders = NoneCache
    /\ enc_runs = 0
    /\ enc_calls = <<>>
    /\ command = <<>>
    /\ is_converting = FALSE
    /\ ui_state = "normal"
    /\ progress_bar = 0
    /\ status_label = "Add files to the queue to begin."
    /\ hw_accel_values = <<>>
    /\ available_encoders = <<>>
    /\ hw_pc = "not_started"
    /\ handled = <<>>
    /\ gif_pc = "idle"
    /\ gif_request = NoGifRequest
    /\ palette_path = 0
    /\ gif_exc = NoExc
    /\ temp_files = {}
    /\ created = {}
    /\ invocations = <<>>
    /\ gif_calls = 0
    /\ pipe_pc = "idle"
    /\ p_state = "none"
    /\ p_script = <<>>
    /\ stdout_pipe = <<>>
    /\ stderr_pipe = 0
    /\ stderr_read = 0
    /\ returncode = -1

Init == InitOther /\ request = NoRequest

Next ==
    \/ add_files
    \/ start_export
    \/ rcw_iteration
    \/ rcw_return
    \/ rcw_except
    \/ rcw_finish
    \/ call_convert
    \/ convert_check_input
    \/ convert_probe
    \/ convert_spawn
    \/ convert_read_line
    \/ convert_finish

Spec == Init /\ [][Next]_vars

\* calls of get_available_encoders on one FFmpegConverter
NextEnc == \E force_rescan \in BOOLEAN : get_available_encoders(force_rescan)

SpecEnc == Init /\ [][NextEnc]_vars

NextGif ==
    \/ call_create_gif
    \/ gif_check_input
    \/ gif_make_temp
    \/ gif_palette
    \/ gif_invocation
    \/ gif_finally

SpecGif == Init /\ [][NextGif]_vars

NextPipe ==
    \/ pipe_popen
    \/ encoder_write_progress
    \/ encoder_write_diag
    \/ encoder_exit
    \/ pipe_read_line
    \/ pipe_read_eof
    \/ pipe_communicate_read
    \/ pipe_communicate_wait

SpecPipe == Init /\ [][NextPipe]_vars


(* ====================== properties: the batch worker =================== *)
Indices(log) == 1..Len(log)
StatusCount == Cardinality({k \in Indices(published) : published[k].msg = "converting"})
HasError(log) == \E k \in Indices(log) : log[k].tag = "ERROR"

\* C1: fail-fast batch. Once the convert call of request k has failed, no later
\* request is started: no STATUS 'converting' tuple, no duration probe, no built
\* command and no spawned encoder exists for any request after k, no convert
\* call runs any more, and exactly k STATUS 'converting' tuples were published.
C1_FailFast ==
    caller = "worker" =>
      \A k \in Indices(outcomes) : outcomes[k] = "err" =>
        /\ Len(outcomes) = k
        /\ StatusCount = k
        /\ \A j \in probed \cup built \cup spawned : j <= k
        /\ \A e \in Indices(published) :
             published[e].msg = "converting" => published[e].i <= k
        /\ conv_pc \in {"raised", "idle"}
        /\ w_pc \in {"in_convert", "after_loop", "done"}

\* a finished batch of 3 requests whose 2nd request failed after its encoder ran
C1_Witness ==
    /\ w_pc = "done"
    /\ total_files = 3
    /\ outcomes = <<"ok", "err">>
    /\ spawned = {1, 2}
    /\ StatusCount = 2

\* C2: DONE is published exactly when every request of the batch succeeded:
\* a finished batch has a DONE tuple iff all its convert calls returned, and no
\* DONE tuple follows an ERROR tuple.
C2_DoneIffAllSucceeded ==
    /\ (caller = "worker" /\ w_pc = "done") =>
          (HasDone(published) <=>
             (Len(outcomes) = total_files /\ \A k \in Indices(outcomes) : outcomes[k] = "ok"))
    /\ \A j, k \in Indices(published) :
          (j < k /\ published[j].tag = "ERROR") => published[k].tag # "DONE"

\* C3: initiate_shutdown is invoked only after DONE was published for the batch.
C3_ShutdownOnlyAfterDone ==
    \A k \in Indices(shutdown_calls) : shutdown_calls[k]


(* ========================= properties: convert ======================== *)
NonSpace(c) == c \notin WhiteSpace
Finals == {k \in Indices(cb_calls) : cb_calls[k].kind = "final"}
Ended == conv_pc \in {"returned", "raised"}

C4_WitnessFailure ==
    /\ conv_pc = "raised"
    /\ proc.state = "exited"
    /\ proc.rc = 1
    /\ proc.stderr = <<"\n", "E", "\n">>
    /\ exc.text = <<"E">>

\* C5: the percentages convert passes to the callback never decrease, and no
\* final (100) callback is made by a call that raises.
C5_NonDecreasing ==
    /\ \A j, k \in Indices(cb_calls) : j < k => cb_calls[j].pct <= cb_calls[k].pct
    /\ conv_pc = "raised" => Finals = {}

\* the exceptions get_video_duration can raise
ProbeExcs ==
    { Exc("FFmpegError", 0, <<"Executable not found">>),
      Exc("FFmpegError", 1, <<"Command failed">>),
      Exc("FFmpegError", 0, <<"Could not parse video duration">>) }

\* C6: a failure of get_video_duration is not fatal for convert: a call that ran
\* the probe never ends with the probe's exception as its outcome, it goes on to
\* build the command.
C6_ProbeFailureNonFatal ==
    (Ended /\ cur \in probed) =>
       /\ exc \notin ProbeExcs
       /\ cur \in built

\* the duration of the running call was found unavailable (the probe raised)
\* or non-positive
DurationUnusable ==
    /\ conv_pc \in {"spawn", "read", "returned", "raised"}
    /\ cur \in probed
    /\ duration_s <= 0

C8_PercentageRange ==
    \A k \in Indices(cb_calls) : cb_calls[k].pct \in (0..100) \cup {-1}


(* ==================== properties: the encoder cache =================== *)
Ran == {k \in Indices(enc_calls) : enc_calls[k].ran}

\* C9: a call of get_available_encoders runs the tool iff the cache is None or
\* force_rescan is set. A call that does not run it returns the very list
\* object the cache holds and leaves the cache alone. A successful call that
\* runs it (every successful force_rescan call does) puts a new list object in
\* the cache, returns that object, and the new list holds only tokens of the
\* listing just read. The tool has run once per such call.
C9_CacheGuard ==
    /\ enc_runs = Cardinality(Ran)
    /\ \A k \in Indices(enc_calls) :
         LET c == enc_calls[k] IN
         /\ c.ran <=> (c.before.none \/ c.force)
         /\ ~c.ran =>
              /\ c.exc = NoExc
              /\ ~c.result.none
              /\ c.result = c.before
              /\ c.after = c.before
         /\ (c.ran /\ c.exc = NoExc) =>
              /\ ~c.after.none
              /\ c.result = c.after
              /\ c.after.id # c.before.id
              /\ \A e \in Indices(c.after.val) :
                   \E l \in Indices(c.stdout) :
                      LineMatches(c.stdout[l]) /\ c.after.val[e] = LineGroup1(c.stdout[l])

\* a first call that fills the cache, a second without force_rescan that returns
\* the same object without running the tool, a third with force_rescan that
\* replaces a two-element list by a one-element list
C9_Witness ==
    /\ Len(enc_calls) = 3
    /\ enc_runs = 2
    /\ ~enc_calls[1].force /\ enc_calls[1].ran /\ Len(enc_calls[1].after.val) = 3
    /\ ~enc_calls[2].force /\ ~enc_calls[2].ran /\ enc_calls[2].result = enc_calls[1].result
    /\ enc_calls[3].force /\ enc_calls[3].ran /\ Len(enc_calls[3].after.val) = 1
    /\ _available_encoders = enc_calls[3].result

\* C10: when the listing invocation fails, get_available_encoders raises
\* FFmpegError and the cache is exactly what it was before the call; after a
\* failure on a None cache the next call runs the tool again.
C10_FailureKeepsCache ==
    \A k \in Indices(enc_calls) :
       LET c == enc_calls[k] IN
       c.exc # NoExc =>
          /\ c.ran
          /\ c.exc.type = "FFmpegError"
          /\ c.after = c.before
          /\ (c.before.none /\ k < Len(enc_calls)) => enc_calls[k + 1].ran

\* a failed forced rescan on a filled cache, and a failed first call followed
\* by a call that runs the tool again
C10_Witness ==
    /\ Len(enc_calls) = 4
    /\ enc_calls[1].exc # NoExc /\ enc_calls[1].before.none
    /\ ~enc_calls[2].force /\ enc_calls[2].ran /\ enc_calls[2].after.val # <<>>
    /\ enc_calls[3].force /\ enc_calls[3].exc # NoExc
    /\ enc_calls[3].after = enc_calls[2].after
    /\ ~enc_calls[4].ran /\ enc_calls[4].result = enc_calls[2].result


(* ---------------- the application: two workers and the consumer ------- *)
\* progress lines of the encoder in the application runs: one that carries the
\* elapsed time and one that does not
AppProgressLines == {<<"out_time_ms", IntVal(1000000)>>, <<"frame", IntVal(1)>>}

add_files_app == AddFiles(MaxAppFiles, FirstFiles(MaxAppFiles))
convert_read_line_app == ReadLine(MaxAppLines, AppProgressLines)

NextApp ==
    \/ populate_hw_accel
    \/ _populate_hw_accel_worker
    \/ process_queue
    \/ add_files_app
    \/ start_export
    \/ rcw_iteration
    \/ rcw_return
    \/ rcw_except
    \/ rcw_finish
    \/ convert_check_input
    \/ convert_probe
    \/ convert_spawn
    \/ convert_read_line_app
    \/ convert_finish

SpecApp == Init /\ [][NextApp]_vars

(* ---------------- the queue: files of several folders ----------------- *)
\* two folders; "a" holds two videos of one base name, one of them with an
\* upper-case extension, and a text file; "b" holds a video named like one of
\* "a" and another one
Folders == {"a", "b"}
FolderFiles ==
    [folderpath \in Folders |->
        IF folderpath = "a"
        THEN {[base |-> "x", ext |-> ".mp4"], [base |-> "x", ext |-> ".MKV"],
              [base |-> "notes", ext |-> ".txt"]}
        ELSE {[base |-> "x", ext |-> ".mp4"], [base |-> "y", ext |-> ".mp4"]}]

\* the sequences without repetition of at most n elements of set
RECURSIVE Orders(_, _)
Orders(set, n) ==
    IF n = 0 \/ set = {} THEN {<<>>}
    ELSE {<<>>} \cup UNION { { <<e>> \o rest : rest \in Orders(set \ {e}, n - 1) } : e \in set }

\* os.listdir: the files of the folder in any order
Listings_of ==
    [folderpath \in Folders |->
        { o \in Orders(FolderFiles[folderpath], Cardinality(FolderFiles[folderpath])) :
            Len(o) = Cardinality(FolderFiles[folderpath]) }]

\* askopenfilenames: one or two files of one folder ("All files" is offered)
Selections ==
    UNION { { [k \in 1..Len(o) |->
                 [dir |-> folderpath, base |-> o[k].base, ext |-> o[k].ext]] :
              o \in Orders(FolderFiles[folderpath], 2) \ {<<>>} } : folderpath \in Folders }

\* output directories the user may have chosen
OutputDirs == {HomeDir, "out"}

add_files_any == AddFiles(MaxQueueFiles, Selections)
add_folder == AddFolder(MaxQueueFiles, Folders, Listings_of)
start_export_dir == StartExport(OutputDirs)

NextQueue ==
    \/ add_files_any
    \/ add_folder
    \/ start_export_dir
    \/ rcw_iteration
    \/ rcw_return
    \/ rcw_except
    \/ rcw_finish
    \/ convert_check_input
    \/ convert_probe
    \/ convert_spawn
    \/ convert_read_line_app
    \/ convert_finish

SpecQueue == Init /\ [][NextQueue]_vars

(* ---------------- _build_command as a function of its request --------- *)
\* _build_command called on its own (as the unit tests do) with request
InitCmd == InitOther /\ request \in Requests

build_command ==
    /\ command = <<>>
    /\ request \in Requests
    /\ command' = _build_command(request)
    /\ UNCHANGED <<batchVars, histVars, encVars, appVars, gifVars, pipeVars>>
    /\ UNCHANGED <<caller, progress_callback, conv_pc, duration_s, progress_data, proc, exc,
                   request>>

SpecCmd == InitCmd /\ [][build_command]_vars

(* ================= properties: errors of a batch run ================== *)
Errors(log) == {k \in Indices(log) : log[k].tag = "ERROR"}

\* C11: a batch run in which a request failed publishes exactly one ERROR
\* tuple, and no run ever publishes more than one.
C11_ExactlyOneError ==
    /\ Cardinality(Errors(published)) <= 1
    /\ (caller = "worker" /\ w_pc \in {"after_loop", "done"}
          /\ \E k \in Indices(outcomes) : outcomes[k] = "err")
       => Cardinality(Errors(published)) = 1

(* ================= properties: order of steps in convert =============== *)
\* C19: a convert call whose input path does not exist raises
\* FileNotFoundError and has, for that request, run no probe, built no
\* command, started no process and made no callback.
C19_MissingInputFirst ==
    (request # NoRequest /\ ~request.exists /\ conv_pc # "exists")
    => /\ conv_pc = "raised"
       /\ exc.type = "FileNotFoundError"
       /\ cur \notin (probed \cup built \cup spawned)
       /\ command = <<>>
       /\ cb_calls = <<>>

\* the second file of a batch is missing after the first was converted
C19_Witness ==
    /\ caller = "worker" /\ w_i = 2 /\ 1 \in spawned
    /\ request # NoRequest /\ ~request.exists /\ conv_pc = "raised"

\* C20: every progress snapshot convert emits follows the reading of an
\* out_time_ms line; a line of another key, or one that is no key=value pair,
\* emits none.
C20_OnePerElapsedUpdate ==
    \A k \in 1..Len(cb_calls) :
        cb_calls[k].kind = "progress" => cb_calls[k].key = "out_time_ms"

\* C15: a request whose quality mode is none of crf/cbr/cq is rejected before
\* the probe runs, a command is built or the encoder is started.
C15_InvalidModeRejected ==
    (request # NoRequest /\ request.quality_mode \notin QualityModes)
    => /\ cur \notin (probed \cup built \cup spawned)
       /\ command = <<>>

(* ================= properties: the built command ====================== *)
Built == command # <<>>
\* the argument list holds the flag / holds the arguments of sub in a row
Has(cmd, flag) == \E k \in 1..Len(cmd) : cmd[k] = S(flag)
Occurs(cmd, sub) ==
    \E k \in 0..(Len(cmd) - Len(sub)) : SubSeq(cmd, k + 1, k + Len(sub)) = sub

\* C13: the last two elements of every built command are '-y' and the
\* output path.
C13_EndsWithOverwrite ==
    Built => /\ Len(command) >= 2
             /\ command[Len(command) - 1] = S("-y")
             /\ command[Len(command)] = request.output_path

\* C14: the built command holds the flags of the request's quality mode, in a
\* row, and no flag of another mode.
C14_QualityDispatch ==
    Built =>
      LET v == S(ToString(request.quality_value))
          b == <<ToString(request.quality_value), "M">>
      IN  /\ request.quality_mode = "crf" =>
                /\ Occurs(command, <<S("-crf"), v>>)
                /\ \A f \in {"-b:v", "-minrate", "-maxrate", "-bufsize", "-rc", "-cq"} :
                       ~Has(command, f)
          /\ request.quality_mode = "cbr" =>
                /\ Occurs(command, <<S("-b:v"), b, S("-minrate"), b, S("-maxrate"), b,
                                     S("-bufsize"), S("2M")>>)
                /\ \A f \in {"-crf", "-cq", "-rc"} : ~Has(command, f)
          /\ request.quality_mode = "cq" =>
                /\ Occurs(command, <<S("-rc"), S("vbr"), S("-cq"), v>>)
                /\ \A f \in {"-crf", "-b:v", "-minrate", "-maxrate", "-bufsize"} :
                       ~Has(command, f)

\* a constant-quality request for a hardware encoder was built
C14_Witness ==
    /\ Built /\ request.quality_mode = "cq" /\ request.quality_value = 24
    /\ request.video_codec = <<"hevc_", "nvenc">>

C17_AccelBeforeInput ==
    Built =>
      /\ (request.video_codec = <<"hevc_", "nvenc">> /\ request.hw_accel = S("nvenc"))
            => Occurs(command, <<S("-hwaccel"), S("cuda")>>)
      /\ \A k \in 1..Len(command) :
            command[k] \in {S("-hwaccel"), S("-hwaccel_output_format")}
            => \E j \in (k + 1)..Len(command) : command[j] = S("-i")
      /\ request.hw_accel \in {None, S("none")} => ~Has(command, "-hwaccel")

\* hevc_nvenc with hw_accel 'nvenc' was built
C17_Witness ==
    /\ Built /\ request.video_codec = <<"hevc_", "nvenc">>
    /\ request.hw_accel = S("nvenc")

\* C18: the built command holds '-c:a <audio_codec>'; with 'copy' no '-b:a',
\* with any other codec '-b:a 192k' right after it.
C18_AudioFlags ==
    Built =>
      LET ac == request.audio_codec IN
      /\ Occurs(command, <<S("-c:a"), ac>>)
      /\ ac = S("copy") => ~Has(command, "-b:a")
      /\ ac # S("copy") => Occurs(command, <<S("-c:a"), ac, S("-b:a"), S("192k")>>)

\* an audio codec that is neither copy nor aac was built
C18_Witness == Built /\ request.audio_codec = S("libopus")

(* ================= properties: the event channel ====================== *)
\* C12: what the consumer has handled, followed by what waits on the queue,
\* is exactly what the two workers published, in the order of publication:
\* nothing is dropped, handled twice or handled out of order.
C12_ChannelFifo == published = handled \o progress_queue

\* tuples of both workers were handled, with one of the batch worker between
\* them still waiting while the batch goes on
C12_Witness ==
    /\ \E k \in 1..Len(handled) : handled[k].tag = "HW_ACCEL"
    /\ \E k \in 1..Len(handled) : handled[k].tag = "NUM" /\ handled[k].pct = -1
    /\ Len(handled) >= 3
    /\ Len(progress_queue) >= 1

(* ================= properties: percentage, shutdown, encoders ========= *)
\* C26: with a positive duration D, a snapshot made for an elapsed time of
\* e >= 0 microseconds carries min(100, floor(100 * e / (D * 1000000))).
C26_PercentOfDuration ==
    (conv_pc = "read" /\ cb_calls # <<>> /\ duration_s > 0
       /\ cb_calls[Len(cb_calls)].kind = "progress"
       /\ progress_data["out_time_ms"].n >= 0)
    => cb_calls[Len(cb_calls)].pct
         = Min(100, (100 * progress_data["out_time_ms"].n) \div (duration_s * 1000000))

\* C27: initiate_shutdown is never called in a batch run in which a request
\* failed.
C27_NoShutdownAfterFailure ==
    shutdown_calls # <<>> => \A k \in Indices(outcomes) : outcomes[k] # "err"

\* the lines of the listing that describe a video encoder
VideoEncoderLines == {LineX264, LineNvenc}

\* C23: the list a call of get_available_encoders parsed from a listing holds
\* exactly the encoder tokens of the listing's video-encoder lines, in order.
C23_OnlyVideoEncoders ==
    \A k \in Indices(enc_calls) :
        (enc_calls[k].ran /\ enc_calls[k].exc = NoExc) =>
            LET out == enc_calls[k].stdout
                res == enc_calls[k].result.val
            IN  /\ \A j \in 1..Len(res) :
                      \E l \in 1..Len(out) : out[l] \in VideoEncoderLines /\ out[l][2] = res[j]
                /\ \A l \in 1..Len(out) :
                      out[l] \in VideoEncoderLines => \E j \in 1..Len(res) : res[j] = out[l][2]

(* ================= properties: the converting state =================== *)
\* C28: once the batch worker and the capability query have ended and every
\* tuple has been handled, the application has left the converting state and
\* the controls are enabled again.
C28_BatchEndsConverting ==
    (w_pc = "done" /\ hw_pc = "done" /\ progress_queue = <<>>)
    => (~is_converting /\ ui_state = "normal")

\* C29: while the batch worker is still working through its files the
\* application is in the converting state and the controls are disabled.
C29_ConvertingWhileWorkerRuns ==
    w_pc \in {"loop", "in_convert"} => (is_converting /\ ui_state = "disabled")

(* ================= properties: order within a batch run =============== *)
IsStatus(e) == e.tag = "NUM" /\ e.msg = "converting"

\* C25: the k-th STATUS tuple of a run is '(k/N)'; the run's first tuple is a
\* STATUS; while file i is converted exactly i STATUS tuples exist, so its
\* progress and terminal tuples follow its own STATUS and precede the next;
\* when the STATUS of the next file is due the call for the previous file has
\* ended with its final tuple published; and at most one encoder is alive.
C25_SequentialInOrder ==
    caller = "worker" =>
      /\ \A k \in Indices(published) :
            IsStatus(published[k]) =>
              /\ published[k].i = Cardinality({j \in 1..k : IsStatus(published[j])})
              /\ published[k].n = total_files
      /\ published # <<>> => IsStatus(published[1])
      /\ w_pc = "in_convert" => StatusCount = w_i
      /\ w_pc = "loop" =>
            /\ StatusCount = w_i - 1
            /\ conv_pc = "idle" /\ alive = {}
            /\ w_i > 1 => published[Len(published)].pct = 100
      /\ Cardinality(alive) <= 1

\* the second file's encoder runs after the first file's progress was published
C25_Witness ==
    /\ caller = "worker" /\ w_pc = "in_convert" /\ w_i = 2
    /\ conv_pc = "read" /\ alive = {2}
    /\ \E k \in Indices(published) : published[k].msg = "progress"

(* ================= properties: output paths of a batch ================ *)
\* C24: the output path the worker passes to convert for a file is
\* <output directory>/<base name without extension>_converted.mp4, and so is
\* the path of every encoder started, whatever the other options and the
\* position in the queue.
C24_OutputNaming ==
    /\ (w_pc = "in_convert" /\ request # NoRequest) =>
          /\ request.input_path = <<files[w_i].dir, "/", files[w_i].base, files[w_i].ext>>
          /\ request.output_path = <<output_dir, "/", files[w_i].base, "_converted.mp4">>
    /\ caller = "worker" =>
          \A k \in Indices(written) :
              written[k] = <<output_dir, "/", files[k].base, "_converted.mp4">>

\* the second file of a batch, an .MKV, is being written to the chosen directory
C24_Witness ==
    /\ w_pc = "in_convert" /\ w_i = 2 /\ files[2].ext = ".MKV" /\ output_dir = "out"
    /\ Len(written) = 2

\* C30: the encoders started in one batch run are all given different output
\* paths.
C30_DistinctOutputs ==
    caller = "worker" =>
      \A j, k \in Indices(written) : j # k => written[j] # written[k]

(* ----------------------------- create_gif ----------------------------- *)
\* the tool invocations of the c-th call of create_gif, in order
RECURSIVE CallInvs_from(_, _)
CallInvs_from(c, k) ==
    IF k > Len(invocations) THEN <<>>
    ELSE IF invocations[k].call = c
         THEN <<invocations[k]>> \o CallInvs_from(c, k + 1)
         ELSE CallInvs_from(c, k + 1)
CallInvs(c) == CallInvs_from(c, 1)

GifEnded == gif_pc \in {"returned", "raised"}

\* C21 (as stated): a call of create_gif on an existing input that has returned
\* or raised has issued exactly two tool invocations, the palette one then the
\* GIF one, whether they succeeded or failed.
C21_AlwaysTwoInvocations ==
    (GifEnded /\ gif_request.exists) =>
        /\ Len(CallInvs(gif_calls)) = 2
        /\ CallInvs(gif_calls)[1].kind = "palette"
        /\ CallInvs(gif_calls)[2].kind = "gif"

\* C21 (amended): every call of create_gif issues the palette invocation first
\* and the GIF invocation, which reads the palette file the first one wrote,
\* second and only after the palette invocation succeeded; a finished call on
\* an existing input has issued two invocations when the palette invocation
\* succeeded and one when it failed.
C21_PaletteThenGif ==
    /\ \A c \in 1..gif_calls :
         LET v == CallInvs(c) IN
         /\ Len(v) <= 2
         /\ Len(v) >= 1 => v[1].kind = "palette"
         /\ Len(v) = 2 =>
              /\ v[2].kind = "gif"
              /\ ~v[1].failed
              /\ \E k \in 1..(Len(v[2].command) - 1) :
                   /\ v[2].command[k] = S("-i")
                   /\ v[2].command[k + 1] = v[1].command[Len(v[1].command)]
    /\ (GifEnded /\ gif_request.exists) =>
         LET v == CallInvs(gif_calls) IN
         /\ Len(v) >= 1
         /\ Len(v) = (IF v[1].failed THEN 1 ELSE 2)

\* a call with both invocations, then a call whose palette invocation failed
C21_Witness ==
    /\ gif_pc = "raised"
    /\ gif_request.exists
    /\ gif_calls = 2
    /\ Len(CallInvs(1)) = 2
    /\ Len(CallInvs(2)) = 1
    /\ CallInvs(2)[1].failed

\* C22: once create_gif has returned or raised, no temporary palette file it
\* created is left, whichever invocation failed or none; and a call on a
\* missing input creates no palette file.
C22_PaletteRemoved ==
    /\ temp_files \subseteq created
    /\ gif_pc \in {"idle", "returned", "raised"} =>
         /\ temp_files = {}
         /\ ~gif_request.exists => gif_calls \notin created

\* the GIF invocation failed after the palette invocation succeeded, the call
\* raised, and the palette file it created is gone
C22_Witness ==
    /\ gif_pc = "raised"
    /\ gif_calls \in created
    /\ Len(CallInvs(gif_calls)) = 2
    /\ CallInvs(gif_calls)[2].failed
    /\ gif_calls \notin temp_files

(* --------------------- convert and its encoder process ----------------- *)
\* C31: when convert has returned or raised, every encoder process it spawned
\* has been waited on (exit status collected, diagnostic channel drained),
\* also when an elapsed-time fragment is not an integer.
C31_EncoderWaited ==
    conv_pc \in {"returned", "raised"} => alive = {}

\* convert waits in its read of the empty progress pipe, which ends only when
\* the encoder writes a line or exits
SupervisorWaits == pipe_pc = "read" /\ stdout_pipe = <<>> /\ p_state = "running"

\* the encoder waits in its write to the full diagnostic pipe, which ends only
\* when convert reads from that pipe
EncoderWaits ==
    /\ p_state = "running"
    /\ p_script # <<>>
    /\ Head(p_script) = "diag"
    /\ stderr_pipe = PipeCapacity

\* C32: convert and the encoder never wait for each other: whatever amount of
\* diagnostic text the encoder writes while its progress channel is open, the
\* state where convert waits for progress and the encoder waits for room in
\* the diagnostic pipe is never reached, so the encoder finishes and convert
\* reaches its terminal outcome.
C32_NoDeadlock == ~(SupervisorWaits /\ EncoderWaits)

====
